---- MODULE Spec2Model ----
(***************************************************************************)
(* A model of the job-link analysis pipeline of                            *)
(* backend/services/analyzeJobLinks.js: analyzeJobLinks and the functions  *)
(* it calls (writeWorkbookWithRetry, fetchPageContent, classifyWithOpenAI).*)
(*                                                                         *)
(* A JavaScript string is a sequence of tokens (each token a piece of the  *)
(* text), so that trimming, prefix tests, substring tests, joining and     *)
(* URL parsing are computed on the text and not assumed.  A table is a     *)
(* sequence of rows; a row is a function from column names to strings.     *)
(***************************************************************************)
EXTENDS Integers, Sequences, FiniteSets, TLC

VARIABLES
    disk,     \* the content of output/JobLinks.xlsx: NoFile or a sequence of rows
    input,    \* the content of the file before any run started (never changes)
    envKey,   \* process.env.OPENAI_API_KEY ("" when unset)
    run,      \* run id -> the locals of that call of analyzeJobLinks
    call      \* a direct call of one exported or inner function: its name,
              \* its argument and, once it returned, its result

vars == <<disk, input, envKey, run, call>>

-----------------------------------------------------------------------------
(* Bounds of the model *)

MaxRows == 2

-----------------------------------------------------------------------------
(* Strings *)

Str(s) == <<s>>
EMPTY == <<>>
NA == Str("N/A")

IsSpace(tok) == tok \in {" ", "\n"}

RECURSIVE TrimStart(_)
TrimStart(s) ==
    IF s # <<>> /\ IsSpace(Head(s)) THEN TrimStart(Tail(s)) ELSE s

RECURSIVE TrimEnd(_)
TrimEnd(s) ==
    IF s # <<>> /\ IsSpace(s[Len(s)]) THEN TrimEnd(SubSeq(s, 1, Len(s) - 1)) ELSE s

\* String.prototype.trim
Trim(s) == TrimEnd(TrimStart(s))

\* String.prototype.startsWith, for a one-token prefix
StartsWith(s, tok) == s # <<>> /\ Head(s) = tok

\* String.prototype.includes, for a one-token needle
Includes(s, tok) == \E k \in 1..Len(s) : s[k] = tok

\* Array.prototype.join
RECURSIVE Join(_, _)
Join(list, sep) ==
    IF list = <<>> THEN EMPTY
    ELSE IF Len(list) = 1 THEN list[1]
    ELSE list[1] \o Str(sep) \o Join(Tail(list), sep)

Min(S) == CHOOSE x \in S : \A y \in S : x <= y

-----------------------------------------------------------------------------
(* Program constants *)

WRITE_RETRIES == 5
WRITE_RETRY_DELAY_MS == 1500
DELAY_BETWEEN_FETCHES_MS == 500
maxRetries == 3

STACK_LIST ==
    { Str("Frontend"), Str("Backend"), Str("Fullstack"), Str("DevOps"), Str("QA"),
      Str("Mobile"), Str("Data Science"), Str("Data Engineer"), Str("Data Analyst"),
      Str("ML Engineer"), Str("AI Engineer"), Str("Software Engineer"),
      Str("Cloud Engineer"), Str("Database Administrator"), Str("Network Engineer"),
      Str("Site Reliability Engineer"), Str("UX/UI Designer") }

SALARY_BUCKETS ==
    { Str("30K <"), Str("60K <"), Str("100K <"), Str("160K <"), Str("200K <"), NA }

LEVEL_VALUES ==
    { Str("Middle"), Str("Senior"), Str("Staff"), Str("Principal"), Str("Principle"),
      Str("Lead"), Str("Architect"), NA }

validRemote == { Str("Remote"), Str("Hybrid"), Str("On-site"), NA }

validIndustry == { Str("finance"), Str("healthcare"), NA, EMPTY }

DEFAULT_CLASSIFICATION ==
    [ remote |-> NA, bestStack |-> NA, allPossibleStacks |-> <<>>,
      hasSpecialPhrase |-> FALSE, matchedSpecialPhrases |-> <<>>,
      industry |-> NA, annualSalary |-> NA, level |-> NA ]

linkKey == "Link"
titleKey == "Title"

\* The keys the merge adds to (or overwrites in) a row, lines 376-386
MergedKeys ==
    { "Date", "Status", "Link", "Remote", "BestStack", "AllPossibleStacks",
      "SecretRequired", "GovernanceAndSecurityPhrases", "Industry", "AnnualSalary",
      "Level" }

BusyMessage == Str("JobLinks.xlsx is busy or locked. Please close it in Excel (or any other program) and try again.")

-----------------------------------------------------------------------------
(* Link normalization: new URL(link) and lines 355-369 *)

Schemes == { "https://", "http://" }
PathEnd == { "?", "#" }

\* index of the first token of s, at or after position from, that is in set S
\* (Len(s) + 1 when there is none)
FirstIn(s, from, S) ==
    Min({ k \in from..Len(s) : s[k] \in S } \cup { Len(s) + 1 })

\* new URL(link): a scheme, a non-empty host, then an optional path, query and
\* fragment.  ok = FALSE stands for the TypeError the constructor throws.
\* An empty path is "/" (WHATWG URL, special schemes).
ParseURL(link) ==
    IF Len(link) >= 2 /\ link[1] \in Schemes /\ link[2] \notin (PathEnd \cup {"/", " "})
    THEN LET hostEnd == FirstIn(link, 2, PathEnd \cup {"/"})
             pathEnd == FirstIn(link, 2, PathEnd)
             path    == SubSeq(link, hostEnd, pathEnd - 1)
             host    == SubSeq(link, 2, hostEnd - 1) IN
         [ ok |-> TRUE,
           origin |-> Str(link[1]) \o host,
           hostname |-> host,
           pathname |-> IF path = <<>> THEN Str("/") ELSE path ]
    ELSE [ ok |-> FALSE, origin |-> EMPTY, hostname |-> EMPTY, pathname |-> EMPTY ]

\* pathname.indexOf("/apply"): the first "/" followed by text starting with "apply"
\* (0 when there is none; positions count from 1)
IndexOfApply(pathname) ==
    LET hits == { k \in 1..(Len(pathname) - 1) :
                    pathname[k] = "/" /\ pathname[k + 1] = "apply" } IN
    IF hits = {} THEN 0 ELSE Min(hits)

\* RefineLink without the branch for applytojob.com hosts (lines 359-360)
RefineLinkNoProxyBranch(link) ==
    LET u == ParseURL(link) IN
    IF ~u.ok THEN link
    ELSE IF IndexOfApply(u.pathname) # 0
         THEN u.origin \o SubSeq(u.pathname, 1, IndexOfApply(u.pathname) - 1)
    ELSE u.origin \o u.pathname

\* lines 355-369: the link that is fetched and stored
RefineLink(link) ==
    LET u == ParseURL(link) IN
    IF ~u.ok THEN link
    ELSE IF Includes(u.hostname, "applytojob.com") THEN u.origin \o u.pathname
    ELSE IF IndexOfApply(u.pathname) # 0
         THEN u.origin \o SubSeq(u.pathname, 1, IndexOfApply(u.pathname) - 1)
    ELSE u.origin \o u.pathname

\* RowLink without the trim
RowLinkNoTrim(row) ==
    IF linkKey \in DOMAIN row /\ row[linkKey] # EMPTY THEN row[linkKey] ELSE EMPTY

\* line 349: row[linkKey] ? String(row[linkKey]).trim() : ""
RowLink(row) ==
    IF linkKey \in DOMAIN row /\ row[linkKey] # EMPTY THEN Trim(row[linkKey]) ELSE EMPTY

\* line 350: row[titleKey] != null ? String(row[titleKey]).trim() : ""
RowTitle(row) ==
    IF titleKey \in DOMAIN row THEN Trim(row[titleKey]) ELSE EMPTY

-----------------------------------------------------------------------------
(* The reply of the classification service, as JSON.parse returns it.      *)
(* A JSON value carries its type: t is "str", "arr", "bool", "null" or     *)
(* "undef" (a missing field).                                              *)

JStr(s)  == [ t |-> "str",   s |-> s,     a |-> <<>>, b |-> FALSE ]
JArr(a)  == [ t |-> "arr",   s |-> EMPTY, a |-> a,    b |-> FALSE ]
JBool(b) == [ t |-> "bool",  s |-> EMPTY, a |-> <<>>, b |-> b ]
JUndef   == [ t |-> "undef", s |-> EMPTY, a |-> <<>>, b |-> FALSE ]

\* Boolean(v)
Truthy(v) ==
    CASE v.t = "str"  -> v.s # EMPTY
      [] v.t = "arr"  -> TRUE
      [] v.t = "bool" -> v.b
      [] OTHER        -> FALSE

\* ENUM.includes(v) ? v : "N/A"
InEnum(v, enum) == IF v.t = "str" /\ v.s \in enum THEN v.s ELSE NA

\* Coerce without the rewrite of "Principle" (line 286)
CoerceKeepsPrinciple(parsed) ==
    [ remote |-> InEnum(parsed.remote, validRemote),
      bestStack |->
          IF parsed.bestStack.t = "str" /\ Trim(parsed.bestStack.s) # EMPTY
          THEN Trim(parsed.bestStack.s) ELSE NA,
      allPossibleStacks |->
          IF parsed.allPossibleStacks.t = "arr" THEN parsed.allPossibleStacks.a ELSE <<>>,
      hasSpecialPhrase |-> Truthy(parsed.hasSpecialPhrase),
      matchedSpecialPhrases |->
          IF parsed.matchedSpecialPhrases.t = "arr"
          THEN parsed.matchedSpecialPhrases.a ELSE <<>>,
      industry |->
          IF parsed.industry.t = "str" /\ parsed.industry.s \in validIndustry
          THEN (IF parsed.industry.s = EMPTY THEN NA ELSE parsed.industry.s)
          ELSE NA,
      annualSalary |-> InEnum(parsed.annualSalary, SALARY_BUCKETS),
      level |-> InEnum(parsed.level, LEVEL_VALUES) ]

\* lines 268-288: the validation of a parsed reply
Coerce(parsed) ==
    [ remote |-> InEnum(parsed.remote, validRemote),
      bestStack |->
          IF parsed.bestStack.t = "str" /\ Trim(parsed.bestStack.s) # EMPTY
          THEN Trim(parsed.bestStack.s) ELSE NA,
      allPossibleStacks |->
          IF parsed.allPossibleStacks.t = "arr" THEN parsed.allPossibleStacks.a ELSE <<>>,
      hasSpecialPhrase |-> Truthy(parsed.hasSpecialPhrase),
      matchedSpecialPhrases |->
          IF parsed.matchedSpecialPhrases.t = "arr"
          THEN parsed.matchedSpecialPhrases.a ELSE <<>>,
      industry |->
          IF parsed.industry.t = "str" /\ parsed.industry.s \in validIndustry
          THEN (IF parsed.industry.s = EMPTY THEN NA ELSE parsed.industry.s)
          ELSE NA,
      annualSalary |-> InEnum(parsed.annualSalary, SALARY_BUCKETS),
      level |->
          IF parsed.level.t = "str" /\ parsed.level.s \in LEVEL_VALUES
          THEN (IF parsed.level.s = Str("Principle") THEN Str("Principal")
                ELSE parsed.level.s)
          ELSE NA ]

\* The object a reply's JSON text stands for.  "{scenario}" is the reply of the
\* documented scenario; "{odd}" holds values outside every vocabulary; "42" is
\* valid JSON with no field at all.
NoFields ==
    [ remote |-> JUndef, bestStack |-> JUndef, allPossibleStacks |-> JUndef,
      hasSpecialPhrase |-> JUndef, matchedSpecialPhrases |-> JUndef,
      industry |-> JUndef, annualSalary |-> JUndef, level |-> JUndef ]

JsonObject(tok) ==
    CASE tok = "{scenario}" ->
           [ remote |-> JStr(Str("Remote")), bestStack |-> JStr(Str("Backend")),
             allPossibleStacks |-> JArr(<<Str("Backend")>>),
             hasSpecialPhrase |-> JBool(FALSE), matchedSpecialPhrases |-> JArr(<<>>),
             industry |-> JStr(NA), annualSalary |-> JStr(Str("100K <")),
             level |-> JStr(Str("Senior")) ]
      [] tok = "{odd}" ->
           [ remote |-> JStr(Str("remote")), bestStack |-> JStr(<<" ", "Wizard", " ">>),
             allPossibleStacks |-> JArr(<<Str("Backend"), Str("DevOps")>>),
             hasSpecialPhrase |-> JBool(TRUE),
             matchedSpecialPhrases |-> JArr(<<Str("TS/SCI"), Str("DoD")>>),
             industry |-> JStr(EMPTY), annualSalary |-> JUndef,
             level |-> JStr(Str("Principle")) ]
      [] OTHER -> NoFields

JsonObjects == { "{scenario}", "{odd}", "42" }

\* Parsed replies for a direct look at the validation: every field takes each
\* value of its vocabulary, a string outside it, and is missing.
RemoteValues ==
    { JStr(v) : v \in validRemote } \cup { JStr(Str("remote")), JUndef }
IndustryValues ==
    { JStr(v) : v \in validIndustry } \cup { JStr(Str("fintech")), JUndef }
SalaryValues ==
    { JStr(v) : v \in SALARY_BUCKETS } \cup { JStr(Str("120K")), JUndef }
LevelValues ==
    { JStr(v) : v \in LEVEL_VALUES } \cup { JStr(Str("Expert")), JUndef }
BestStackValues ==
    { JStr(Str("Backend")), JStr(<<" ", "QA", " ">>), JStr(Str("Wizard")),
      JStr(NA), JStr(EMPTY), JStr(Str(" ")), JUndef }
ParsedReplies ==
    { [ JsonObject(IF b = JUndef THEN "42"
                   ELSE IF b.s = Str("Wizard") THEN "{odd}" ELSE "{scenario}")
          EXCEPT !.remote = rm, !.industry = ind, !.annualSalary = sal,
                 !.level = lv, !.bestStack = b ] :
        rm \in RemoteValues, ind \in IndustryValues, sal \in SalaryValues,
        lv \in LevelValues, b \in BestStackValues }

\* lines 262-266: trim, strip an opening code fence (with or without "json") and
\* a closing one, trim.  The token "~~~" stands for the three-backquote fence.
StripFences(raw) ==
    LET t == Trim(raw)
        a == IF t # <<>> /\ Head(t) \in {"~~~", "~~~json"} THEN TrimStart(Tail(t)) ELSE t
        b == IF a # <<>> /\ a[Len(a)] = "~~~"
             THEN TrimEnd(SubSeq(a, 1, Len(a) - 1)) ELSE a IN
    Trim(b)

SyntaxError == [ code |-> "", status |-> 0, message |-> Str("Unexpected token in JSON") ]
TypeError   == [ code |-> "", status |-> 0, message |-> Str("Cannot read properties of null") ]
NoError     == [ code |-> "", status |-> 0, message |-> EMPTY ]

\* lines 262-288 on the content of one completion: the Classification returned,
\* or the error thrown inside the try block (JSON.parse on text that is not
\* JSON; a property read on null)
ParseReply(raw) ==
    LET jsonStr == StripFences(raw) IN
    IF Len(jsonStr) = 1 /\ jsonStr[1] \in JsonObjects
    THEN [ ok |-> TRUE, value |-> Coerce(JsonObject(jsonStr[1])), error |-> NoError ]
    ELSE IF jsonStr = Str("null")
    THEN [ ok |-> FALSE, value |-> DEFAULT_CLASSIFICATION, error |-> TypeError ]
    ELSE [ ok |-> FALSE, value |-> DEFAULT_CLASSIFICATION, error |-> SyntaxError ]

\* What openai.chat.completions.create can do: resolve with a completion whose
\* content is one of RawReplies, or reject with one of RemoteErrors.
RawReplies ==
    { Str("{scenario}"),
      <<"~~~json", "\n", "{odd}", "\n", "~~~">>,
      Str("42"),
      Str("null"),
      <<"Sure", " here is the JSON">>,
      EMPTY }

RemoteErrors ==
    { [ code |-> "ECONNREFUSED", status |-> 0, message |-> <<"connect ", "ECONNREFUSED">> ],
      [ code |-> "", status |-> 0, message |-> <<"Connection", " error.">> ],
      [ code |-> "rate_limit_exceeded", status |-> 429,
        message |-> <<"429", " Rate limit reached">> ],
      [ code |-> "invalid_api_key", status |-> 401,
        message |-> <<"401", " Incorrect API key provided">> ],
      [ code |-> "invalid_request_error", status |-> 400,
        message |-> <<"400", " Bad request">> ] }

RemoteOutcomes ==
    { [ resolved |-> TRUE, content |-> c, error |-> NoError ] : c \in RawReplies }
    \cup { [ resolved |-> FALSE, content |-> EMPTY, error |-> e ] : e \in RemoteErrors }

\* KeyUsable without the prefix check of line 235
KeyUsableNoPrefix(apiKey) == apiKey # EMPTY

\* lines 229-238: the credential checks at the head of classifyWithOpenAI
KeyUsable(apiKey) == apiKey # EMPTY /\ StartsWith(apiKey, "sk-")

\* lines 291-296
IsConnectionError(err) ==
    \/ err.code \in { "ECONNREFUSED", "ETIMEDOUT", "ENOTFOUND" }
    \/ Includes(err.message, "401")
    \/ Includes(err.message, "Connection")
    \/ Includes(err.message, "timeout")

\* line 302: Math.pow(2, attempt - 1) * 1000
Backoff(attempt) == (2 ^ (attempt - 1)) * 1000

\* AfterFailedAttempt with attempt <= maxRetries for attempt < maxRetries
AfterFailedAttemptWaitsLast(err, attempt) ==
    IF IsConnectionError(err) /\ attempt <= maxRetries THEN "backoff" ELSE "next"

\* lines 300-313: what the catch block does with a failed attempt: "backoff" (wait,
\* then the next iteration) or "next" (the next iteration at once).  Neither
\* branch rethrows.
AfterFailedAttempt(err, attempt) ==
    IF IsConnectionError(err) /\ attempt < maxRetries THEN "backoff" ELSE "next"

\* AfterLastAttempt rethrowing the last error, as Classifier.classifyJobPosting does
AfterLastAttemptThrow == "throw"

\* line 316: the loop left with every attempt failed: "default" (return the
\* default Classification) or "throw"
AfterLastAttempt == "default"

-----------------------------------------------------------------------------
(* The table: merge of one row, and the snapshot that is saved *)

\* HasLinkColumn with the test left out
HasLinkColumnUnchecked(rows) == TRUE

\* line 337: rows.length === 0 || linkKey in rows[0]
HasLinkColumn(rows) == rows = <<>> \/ linkKey \in DOMAIN rows[1]

\* MergeRow with the row spread last, its fields overwriting the computed ones
MergeRowSpreadLast(row, today, refinedLink, link, c) ==
    [ h \in DOMAIN row \cup MergedKeys |->
        IF h \in DOMAIN row THEN row[h]
        ELSE CASE h = "Date" -> today
               [] h = "Status" -> Str("Not Applied")
               [] h = "Link" -> IF refinedLink # EMPTY THEN refinedLink ELSE link
               [] h = "Remote" -> c.remote
               [] h = "BestStack" -> c.bestStack
               [] h = "AllPossibleStacks" -> Join(c.allPossibleStacks, ", ")
               [] h = "SecretRequired" ->
                      IF c.hasSpecialPhrase THEN Str("Yes") ELSE Str("No")
               [] h = "GovernanceAndSecurityPhrases" ->
                      Join(c.matchedSpecialPhrases, "; ")
               [] h = "Industry" -> c.industry
               [] h = "AnnualSalary" -> c.annualSalary
               [] OTHER -> c.level ]

\* lines 374-387: the merged row pushed to results
MergeRow(row, today, refinedLink, link, c) ==
    [ h \in DOMAIN row \cup MergedKeys |->
        CASE h = "Date" -> today
          [] h = "Status" -> Str("Not Applied")
          [] h = "Link" -> IF refinedLink # EMPTY THEN refinedLink ELSE link
          [] h = "Remote" -> c.remote
          [] h = "BestStack" -> c.bestStack
          [] h = "AllPossibleStacks" -> Join(c.allPossibleStacks, ", ")
          [] h = "SecretRequired" -> IF c.hasSpecialPhrase THEN Str("Yes") ELSE Str("No")
          [] h = "GovernanceAndSecurityPhrases" -> Join(c.matchedSpecialPhrases, "; ")
          [] h = "Industry" -> c.industry
          [] h = "AnnualSalary" -> c.annualSalary
          [] h = "Level" -> c.level
          [] OTHER -> row[h] ]

\* line 390: Object.keys(results[0])
Headers(results) == DOMAIN results[1]

\* lines 391-395: a row not processed yet, laid out on the headers
UnprocessedRow(r, headers) ==
    [ h \in headers |-> IF h \in DOMAIN r /\ r[h] # EMPTY THEN r[h] ELSE EMPTY ]

\* FullRows with rows.slice(i) for rows.slice(i + 1)
FullRowsSliceFromI(results, rows, i) ==
    results \o [ k \in 1..(Len(rows) - i) |->
                   UnprocessedRow(rows[i + k], Headers(results)) ]

\* FullRows keeping only the row just merged, the earlier rows laid out again
\* from the rows as read
FullRowsLatestOnly(results, rows, i) ==
    [ k \in 1..Len(rows) |->
        IF k = i + 1 THEN results[i + 1] ELSE UnprocessedRow(rows[k], Headers(results)) ]

\* FullRows writing the processed rows alone
FullRowsResultsOnly(results, rows, i) == results

\* lines 391-396: [...results, ...rows.slice(i + 1).map(...)], i counted from 0
FullRows(results, rows, i) ==
    results \o [ k \in 1..(Len(rows) - (i + 1)) |->
                   UnprocessedRow(rows[i + 1 + k], Headers(results)) ]

-----------------------------------------------------------------------------
(* writeWorkbookWithRetry, lines 134-157 *)

\* What XLSX.writeFile can do: return with the file replaced ("ok"), or throw with
\* the file as it was: "EBUSY" (the file is locked by another program) or
\* another error code
WriteOutcomes == { "ok", "EBUSY", "EACCES" }

WriteError(code) ==
    [ code |-> code, status |-> 0, message |-> <<code, ": ", "open JobLinks.xlsx">> ]

\* lines 147-150
BusyError == [ code |-> "EBUSY", status |-> 0, message |-> BusyMessage ]

\* WriteRetryDelay with the same delay before every attempt
WriteRetryDelayFlat(attempt) == WRITE_RETRY_DELAY_MS

\* line 143
WriteRetryDelay(attempt) == WRITE_RETRY_DELAY_MS * attempt

\* AfterFailedWrite with attempt <= WRITE_RETRIES for attempt < WRITE_RETRIES
AfterFailedWriteOneMore(code, attempt) ==
    IF code = "EBUSY" /\ attempt <= WRITE_RETRIES THEN "retry"
    ELSE IF code = "EBUSY" THEN "busy"
    ELSE "rethrow"

\* AfterFailedWrite retrying whatever the error is
AfterFailedWriteAnyError(code, attempt) ==
    IF attempt < WRITE_RETRIES THEN "retry"
    ELSE IF code = "EBUSY" THEN "busy"
    ELSE "rethrow"

\* AfterFailedWrite with no ceiling on the attempts
AfterFailedWriteNoCeiling(code, attempt) ==
    IF code = "EBUSY" THEN "retry" ELSE "rethrow"

\* lines 142-153: what the catch block does with a failed write attempt
AfterFailedWrite(code, attempt) ==
    IF code = "EBUSY" /\ attempt < WRITE_RETRIES THEN "retry"
    ELSE IF code = "EBUSY" THEN "busy"
    ELSE "rethrow"

-----------------------------------------------------------------------------
(* fetchPageContent, lines 164-219 *)

\* The steps of one call, any of which may throw
FetchSteps ==
    { "launch", "newContext", "newPage", "goto", "waitForTimeout", "wheel", "evaluate" }

PageTexts == { Str("We are hiring a backend engineer") }

\* What frame.evaluate gives for one sub-frame: its text, or a failure
FrameFailed == [ ok |-> FALSE, text |-> EMPTY ]
FrameText(t) == [ ok |-> TRUE, text |-> t ]
FrameResults ==
    { FrameFailed, FrameText(Str("Apply with your resume")), FrameText(Str(" ")),
      FrameText(EMPTY) }

\* What one call meets: no failure ("none") or a failure at one step, the
\* text of the page body, and the sub-frames of the page in page.frames() order
FetchOutcomes ==
    { [ failAt |-> f, body |-> b, frames |-> fr ] :
        f \in FetchSteps \cup {"none"}, b \in PageTexts,
        fr \in { <<>>, <<FrameFailed, FrameText(Str("Apply with your resume"))>> } }

\* The outcomes for a direct look at one call: up to MaxFrames sub-frames
MaxFrames == 3
DirectFetchOutcomes ==
    { [ failAt |-> f, body |-> b, frames |-> fr ] :
        f \in FetchSteps \cup {"none"}, b \in PageTexts \cup { EMPTY },
        fr \in UNION { [ 1..n -> FrameResults ] : n \in 0..MaxFrames } }

\* lines 202-213: the text of the sub-frames, appended in order; a frame whose
\* evaluate throws is skipped (catch at 209-212), a blank text is not appended
RECURSIVE FramesText(_)
FramesText(frames) ==
    IF frames = <<>> THEN EMPTY
    ELSE (IF Head(frames).ok /\ Trim(Head(frames).text) # EMPTY
          THEN Str("\n\n") \o Head(frames).text ELSE EMPTY)
         \o FramesText(Tail(frames))

\* the browser and the page a call leaves behind.  browser.close() is called
\* nowhere; page.close() is called at line 214 only, on the path without an
\* error, and is not awaited.
BrowserLeft(outcome) ==
    IF outcome.failAt = "launch" THEN "none" ELSE "open"
PageLeft(outcome) ==
    IF outcome.failAt \in {"launch", "newContext", "newPage"} THEN "none"
    ELSE IF outcome.failAt = "none" THEN "closing"
    ELSE "open"

FetchError(step) ==
    [ code |-> "", status |-> 0, message |-> <<"fetch failed at ", step>> ]

\* FetchPageContent with the navigation steps outside the try block
FetchPageContentUncaught(outcome) ==
    [ raised |-> outcome.failAt # "none",
      text |-> IF outcome.failAt = "none"
               THEN outcome.body \o FramesText(outcome.frames) ELSE EMPTY,
      error |-> IF outcome.failAt = "none" THEN NoError ELSE FetchError(outcome.failAt),
      browser |-> BrowserLeft(outcome),
      page |-> PageLeft(outcome) ]

\* FetchPageContent without the try block around frame.evaluate: a failing
\* sub-frame is caught at line 215 like a failing step
FetchPageContentFrameUncaught(outcome) ==
    [ raised |-> FALSE,
      text |-> IF outcome.failAt = "none"
                  /\ \A k \in 1..Len(outcome.frames) : outcome.frames[k].ok
               THEN outcome.body \o FramesText(outcome.frames) ELSE EMPTY,
      error |-> NoError,
      browser |-> BrowserLeft(outcome),
      page |-> IF outcome.failAt = "none"
                  /\ \E k \in 1..Len(outcome.frames) : ~outcome.frames[k].ok
               THEN "open" ELSE PageLeft(outcome) ]

\* lines 165-218: what the call does for its caller: the text it returns, or
\* the error it lets escape (raised).  Every step is inside the try block and
\* the catch at line 215 returns "".
FetchPageContent(outcome) ==
    [ raised |-> FALSE,
      text |-> IF outcome.failAt = "none"
               THEN outcome.body \o FramesText(outcome.frames) ELSE EMPTY,
      error |-> NoError,
      browser |-> BrowserLeft(outcome),
      page |-> PageLeft(outcome) ]

-----------------------------------------------------------------------------
(* Inputs *)

LinkApplyPath == <<"https://", "jobs.example.com", "/", "posting", "/", "42",
                   "/", "apply", "/", "step1">>
LinkNotAUrl   == Str("not a url")

\* Links for a direct look at the normalization: a host, a path, and a query
\* and/or fragment.  A path is tokenised at "/" and after the text "apply".
LinkHosts == { <<"jobs.example.com">>, <<"boards.", "applytojob.com">> }
LinkPaths ==
    { <<>>,
      <<"/">>,
      <<"/", "posting", "/", "42">>,
      <<"/", "posting", "/", "42", "/", "apply">>,
      <<"/", "posting", "/", "42", "/", "apply", "/", "step1">>,
      <<"/", "company", "/", "abc123", "/", "apply">>,
      <<"/", "apply">>,
      <<"/", "apply", "/", "abc123">>,
      <<"/", "posting", "/", "apply", "-now", "/", "42">>,
      <<"/", "posting", "/", "apply", "-now", "/", "42", "/", "apply">> }
LinkTails ==
    { <<>>, <<"?", "ref=x">>, <<"?", "utm=y">>, <<"#", "top">>,
      <<"?", "ref=x", "#", "top">> }
Links ==
    { <<"https://">> \o h \o p \o t :
        h \in LinkHosts, p \in LinkPaths, t \in LinkTails } \cup { LinkNotAUrl }
LinkBlank     == Str(" ")

FreshRow(title, link, company) ==
    [ Title |-> Str(title), Link |-> link, Company |-> Str(company) ]

\* rows as the scraper exports them (Title, Link, Company)
FreshRows ==
    { FreshRow("Backend Engineer", LinkApplyPath, "Acme"),
      FreshRow("QA Lead", EMPTY, "Beta"),
      FreshRow("Data Analyst", LinkBlank, "Gamma"),
      FreshRow("Cloud Engineer", LinkNotAUrl, "Delta") }

\* rows of a table the user already tracks a Status in
TrackedRows ==
    { [ Title |-> Str("ML Engineer"), Link |-> LinkApplyPath \o <<"?", "utm=y">>,
        Company |-> Str("Eps"), Status |-> Str("Applied") ] }

\* a table with no Link column
NoLinkRows == { [ Title |-> Str("Backend Engineer"), Company |-> Str("Acme") ] }

SeqsUpTo(S, n) == UNION { [1..k -> S] : k \in 0..n }

InputTables ==
    SeqsUpTo(FreshRows, MaxRows) \cup SeqsUpTo(TrackedRows, MaxRows)
        \cup SeqsUpTo(NoLinkRows, MaxRows)

ApiKeys == { EMPTY, <<"pk-", "test">>, <<"sk-", "test">> }

Dates == { Str("11/6/2026") }

NotFoundError ==
    [ code |-> "", status |-> 0, message |-> Str("JobLinks.xlsx not found") ]
MissingLinkError ==
    [ code |-> "", status |-> 0, message |-> Str("JobLinks.xlsx must have a Link column") ]

-----------------------------------------------------------------------------
(* State *)

\* The locals of a call of analyzeJobLinks that has not started.  fetched,
\* classified and remote record the rows (counted from 0) for which
\* fetchPageContent, classifyWithOpenAI and the remote service were called;
\* remoteCalls, waits and writeWaits record the current call of
\* classifyWithOpenAI and of writeWorkbookWithRetry; saved counts the writes
\* that succeeded and paces the pacing delays.
IdleRun ==
    [ pc |-> "idle", apiKey |-> EMPTY, rows |-> <<>>, today |-> EMPTY, i |-> 0,
      link |-> EMPTY, title |-> EMPTY, refinedLink |-> EMPTY, pageText |-> EMPTY,
      classification |-> DEFAULT_CLASSIFICATION, results |-> <<>>, fullRows |-> <<>>,
      attempt |-> 0, lastError |-> NoError, writeAttempt |-> 0, error |-> NoError,
      fetched |-> {}, classified |-> {}, remote |-> {}, remoteCalls |-> 0,
      waits |-> <<>>, writeWaits |-> <<>>, lastErr |-> NoError, saved |-> 0,
      paces |-> 0 ]

\* no direct call is made
NoCall == [ fn |-> "none", done |-> FALSE ]

InitWith(runs) ==
    /\ \E exists \in BOOLEAN :
         \E table \in (IF exists THEN InputTables ELSE { <<>> }) :
           /\ disk = [ exists |-> exists, rows |-> table ]
           /\ input = disk
    /\ envKey \in ApiKeys
    /\ run = [ r \in runs |-> IdleRun ]
    /\ call = NoCall

Init == InitWith({1})

-----------------------------------------------------------------------------
(* analyzeJobLinks, lines 323-405 *)

\* The call fails: the error propagates out of analyzeJobLinks
Throw(r, err) == run' = [run EXCEPT ![r].pc = "failed", ![r].error = err]

InvalidKeyError ==
    [ code |-> "", status |-> 0, message |-> Str("Invalid OpenAI API key format") ]

\* SetupError examining the credential, as the constructor of Classifier does
SetupErrorChecksKey(file, apiKey) ==
    IF ~file.exists THEN NotFoundError
    ELSE IF ~HasLinkColumn(file.rows) THEN MissingLinkError
    ELSE IF apiKey = EMPTY \/ ~StartsWith(apiKey, "sk-") THEN InvalidKeyError
    ELSE NoError

\* lines 325-342: the error analyzeJobLinks throws before its loop, NoError when
\* it throws none.  The credential is read (line 329) and not examined.
SetupError(file, apiKey) ==
    IF ~file.exists THEN NotFoundError
    ELSE IF ~HasLinkColumn(file.rows) THEN MissingLinkError
    ELSE NoError

\* lines 324-345: the file is looked up and read, the Link column checked
Start(r) ==
    /\ run[r].pc = "idle"
    /\ IF ~disk.exists
       THEN Throw(r, SetupError(disk, envKey))
       ELSE IF SetupError(disk, envKey) # NoError
       THEN run' = [run EXCEPT ![r].pc = "failed",
                               ![r].error = SetupError(disk, envKey),
                               ![r].apiKey = envKey, ![r].rows = disk.rows]
       ELSE \E d \in Dates :
              run' = [run EXCEPT ![r].pc = "loop", ![r].apiKey = envKey,
                                 ![r].rows = disk.rows, ![r].today = d,
                                 ![r].i = 0, ![r].results = <<>>]
    /\ UNCHANGED <<disk, input, envKey, call>>

\* lines 347-369: the head of the loop body for row i, up to the fetch
BeginRow(r) ==
    /\ run[r].pc = "loop"
    /\ run[r].i < Len(run[r].rows)
    /\ LET row  == run[r].rows[run[r].i + 1]
           link == RowLink(row) IN
       run' = [run EXCEPT ![r].link = link,
                          ![r].title = RowTitle(row),
                          ![r].classification = DEFAULT_CLASSIFICATION,
                          ![r].refinedLink = IF link # EMPTY THEN RefineLink(link) ELSE EMPTY,
                          ![r].pageText = EMPTY,
                          ![r].pc = IF link # EMPTY THEN "fetch" ELSE "merge"]
    /\ UNCHANGED <<disk, input, envKey, call>>

\* line 370: await fetchPageContent(refinedLink)
Fetch(r) ==
    /\ run[r].pc = "fetch"
    /\ \E outcome \in FetchOutcomes :
         LET got == FetchPageContent(outcome) IN
         IF got.raised
         THEN run' = [run EXCEPT ![r].fetched = @ \cup {run[r].i},
                                 ![r].pc = "failed", ![r].error = got.error]
         ELSE run' = [run EXCEPT ![r].pageText = got.text,
                                 ![r].fetched = @ \cup {run[r].i},
                                 ![r].pc = "classify"]
    /\ UNCHANGED <<disk, input, envKey, call>>

\* line 371 and lines 228-243: classifyWithOpenAI is entered
ClassifyEnter(r) ==
    /\ run[r].pc = "classify"
    /\ IF KeyUsable(run[r].apiKey)
       THEN run' = [run EXCEPT ![r].classified = @ \cup {run[r].i},
                               ![r].attempt = 1, ![r].lastError = NoError,
                               ![r].remoteCalls = 0, ![r].waits = <<>>,
                               ![r].pc = "attempt"]
       ELSE run' = [run EXCEPT ![r].classified = @ \cup {run[r].i},
                               ![r].remoteCalls = 0, ![r].waits = <<>>,
                               ![r].classification = DEFAULT_CLASSIFICATION,
                               ![r].pc = "merge"]
    /\ UNCHANGED <<disk, input, envKey, call>>

\* lines 245-314: one iteration of the retry loop, and line 316 after the last
ClassifyAttempt(r) ==
    /\ run[r].pc = "attempt"
    /\ \E o \in RemoteOutcomes :
         LET reply == IF o.resolved THEN ParseReply(o.content)
                      ELSE [ ok |-> FALSE, value |-> DEFAULT_CLASSIFICATION,
                             error |-> o.error ]
             a     == run[r].attempt
             calls == run[r].remoteCalls + 1 IN
         IF reply.ok
         THEN run' = [run EXCEPT ![r].remote = @ \cup {run[r].i},
                                 ![r].remoteCalls = calls,
                                 ![r].classification = reply.value,
                                 ![r].pc = "merge"]
         ELSE LET waits == IF AfterFailedAttempt(reply.error, a) = "backoff"
                           THEN Append(run[r].waits, Backoff(a)) ELSE run[r].waits IN
              IF a + 1 <= maxRetries
              THEN run' = [run EXCEPT ![r].remote = @ \cup {run[r].i},
                                      ![r].remoteCalls = calls,
                                      ![r].lastError = reply.error,
                                      ![r].waits = waits,
                                      ![r].attempt = a + 1]
              ELSE IF AfterLastAttempt = "default"
              THEN run' = [run EXCEPT ![r].remote = @ \cup {run[r].i},
                                      ![r].remoteCalls = calls,
                                      ![r].lastError = reply.error,
                                      ![r].waits = waits,
                                      ![r].attempt = a + 1,
                                      ![r].classification = DEFAULT_CLASSIFICATION,
                                      ![r].pc = "merge"]
              ELSE run' = [run EXCEPT ![r].remote = @ \cup {run[r].i},
                                      ![r].remoteCalls = calls,
                                      ![r].lastError = reply.error,
                                      ![r].pc = "failed", ![r].error = reply.error]
    /\ UNCHANGED <<disk, input, envKey, call>>

\* lines 374-398: the row is merged and the snapshot to save is built
Merge(r) ==
    /\ run[r].pc = "merge"
    /\ LET merged  == MergeRow(run[r].rows[run[r].i + 1], run[r].today,
                               run[r].refinedLink, run[r].link, run[r].classification)
           results == Append(run[r].results, merged) IN
       run' = [run EXCEPT ![r].results = results,
                          ![r].fullRows = FullRows(results, run[r].rows, run[r].i),
                          ![r].writeAttempt = 1, ![r].writeWaits = <<>>,
                          ![r].lastErr = NoError,
                          \* the locals of the call of classifyWithOpenAI are gone
                          ![r].pageText = EMPTY, ![r].attempt = 0,
                          ![r].lastError = NoError, ![r].remoteCalls = 0,
                          ![r].waits = <<>>,
                          ![r].pc = "write"]
    /\ UNCHANGED <<disk, input, envKey, call>>

\* line 399 and lines 136-155: one attempt of writeWorkbookWithRetry
WriteAttempt(r) ==
    /\ run[r].pc = "write"
    /\ \E o \in WriteOutcomes :
         IF o = "ok"
         THEN /\ disk' = [ exists |-> TRUE, rows |-> run[r].fullRows ]
              /\ run' = [run EXCEPT ![r].saved = @ + 1, ![r].pc = "pace"]
         ELSE /\ disk' = disk
              /\ LET step == AfterFailedWrite(o, run[r].writeAttempt) IN
                 CASE step = "retry" ->
                        run' = [run EXCEPT
                                  ![r].lastErr = WriteError(o),
                                  ![r].writeWaits =
                                      Append(@, WriteRetryDelay(run[r].writeAttempt)),
                                  ![r].writeAttempt = @ + 1]
                   [] step = "busy" ->
                        run' = [run EXCEPT ![r].lastErr = WriteError(o),
                                           ![r].pc = "failed", ![r].error = BusyError]
                   [] OTHER ->
                        run' = [run EXCEPT ![r].lastErr = WriteError(o),
                                           ![r].pc = "failed",
                                           ![r].error = WriteError(o)]
    /\ UNCHANGED <<input, envKey, call>>

\* Pace with the delay of line 401 taken after the last row as well
PaceAfterLast(r) ==
    /\ run[r].pc = "pace"
    /\ run' = [run EXCEPT ![r].paces = @ + 1,
                          ![r].i = @ + 1,
                          ![r].link = EMPTY, ![r].title = EMPTY,
                          ![r].refinedLink = EMPTY,
                          ![r].classification = DEFAULT_CLASSIFICATION,
                          ![r].fullRows = <<>>,
                          ![r].writeAttempt = 0, ![r].writeWaits = <<>>,
                          ![r].lastErr = NoError,
                          ![r].pc = "loop"]
    /\ UNCHANGED <<disk, input, envKey, call>>

\* line 401 and the loop increment
Pace(r) ==
    /\ run[r].pc = "pace"
    /\ run' = [run EXCEPT ![r].paces = IF run[r].i < Len(run[r].rows) - 1
                                       THEN @ + 1 ELSE @,
                          ![r].i = @ + 1,
                          \* the locals of the loop body and of the save are gone
                          ![r].link = EMPTY, ![r].title = EMPTY,
                          ![r].refinedLink = EMPTY,
                          ![r].classification = DEFAULT_CLASSIFICATION,
                          ![r].fullRows = <<>>,
                          ![r].writeAttempt = 0, ![r].writeWaits = <<>>,
                          ![r].lastErr = NoError,
                          ![r].pc = "loop"]
    /\ UNCHANGED <<disk, input, envKey, call>>

\* line 404: the loop is over, the file location is returned
Finish(r) ==
    /\ run[r].pc = "loop"
    /\ run[r].i >= Len(run[r].rows)
    /\ run' = [run EXCEPT ![r].pc = "done"]
    /\ UNCHANGED <<disk, input, envKey, call>>

Next ==
    \E r \in DOMAIN run :
        \/ Start(r)
        \/ BeginRow(r)
        \/ Fetch(r)
        \/ ClassifyEnter(r)
        \/ ClassifyAttempt(r)
        \/ Merge(r)
        \/ WriteAttempt(r)
        \/ Pace(r)
        \/ Finish(r)

Spec == Init /\ [][Next]_vars

\* Two runs on the same file (the trigger endpoint invoked twice).  Nothing in
\* analyzeJobLinks keeps a second call from starting while a first is at an
\* await; each run works on the table it read at line 332.
TwoRunsTable ==
    << FreshRow("Backend Engineer", LinkApplyPath, "Acme"),
       FreshRow("QA Lead", EMPTY, "Beta") >>

TwoRunsInit ==
    /\ disk = [ exists |-> TRUE, rows |-> TwoRunsTable ]
    /\ input = disk
    /\ envKey \in ApiKeys
    /\ run = [ r \in {1, 2} |-> IdleRun ]
    /\ call = NoCall

TwoRunsSpec == TwoRunsInit /\ [][Next]_vars

\* A run whose every external call returns or fails: a step that can be taken
\* is eventually taken.
FairSpec == Spec /\ WF_vars(Next)

-----------------------------------------------------------------------------
(* A run whose process may be killed.  XLSX.writeFile(workbook, filePath)    *)
(* (line 138) is handed the path of the file itself, not a temporary file   *)
(* that is renamed onto it, so a process killed inside that call leaves the *)
(* old file, the new one, or a file cut short.                               *)

\* a file whose writing was cut short: it exists and holds no readable table
TornFile == [ exists |-> TRUE, rows |-> <<>>, torn |-> TRUE ]

Kill(r) ==
    /\ run[r].pc \notin {"idle", "done", "failed", "killed"}
    /\ run' = [run EXCEPT ![r].pc = "killed"]
    /\ IF run[r].pc = "write"
       THEN disk' \in { disk, TornFile, [ exists |-> TRUE, rows |-> run[r].fullRows ] }
       ELSE disk' = disk
    /\ UNCHANGED <<input, envKey, call>>

CrashNext ==
    \/ Next
    \/ \E r \in DOMAIN run : Kill(r)

CrashSpec == Init /\ [][CrashNext]_vars

-----------------------------------------------------------------------------
(* Classifier.classifyJobPosting, classifier.js lines 29-89 *)

\* What one call of this.openai.chat.completions.create can do: resolve with a
\* completion whose content is a text, resolve with one whose content is null,
\* or reject with one of RemoteErrors
ChatText(c) == [ kind |-> "text", content |-> c, error |-> NoError ]
ChatNull    == [ kind |-> "null", content |-> EMPTY, error |-> NoError ]
ChatError(e) == [ kind |-> "error", content |-> EMPTY, error |-> e ]
ChatOutcomes ==
    { ChatText(Str("TECHNICAL")), ChatText(<<" ", "NON-TECHNICAL", "\n">>), ChatNull }
        \cup { ChatError(e) : e \in RemoteErrors }

\* the values the caller passes for options.maxRetries (3 when it passes none)
MaxRetriesOptions == 0..3

\* what the k-th call of create meets, for every call a run of the loop can make
JobPostingCalls ==
    { [ outcomes |-> os, maxRetries |-> m ] :
        os \in [ 1..3 -> ChatOutcomes ], m \in MaxRetriesOptions }

\* classifier.js lines 61-67
ClassifierIsConnectionError(err) ==
    \/ err.code \in { "ECONNREFUSED", "ETIMEDOUT", "ENOTFOUND" }
    \/ err.status = 401
    \/ err.status = 429
    \/ Includes(err.message, "Connection")
    \/ Includes(err.message, "timeout")

\* the loop left with every attempt failed, returning a default value
JobPostingExhaustedDefault(err, attempts, waits) ==
    [ raised |-> FALSE, value |-> Str("NON-TECHNICAL"), error |-> NoError,
      attempts |-> attempts, waits |-> waits ]

\* classifier.js lines 76-88: the loop left with every attempt failed (throw
\* error at line 83, or throw lastError, null, when no attempt was made)
JobPostingExhausted(err, attempts, waits) ==
    [ raised |-> TRUE, value |-> EMPTY, error |-> err,
      attempts |-> attempts, waits |-> waits ]

\* classifier.js lines 44-88: the loop from attempt on; waits holds the delays
\* made so far, each with the attempt it followed
RECURSIVE JobPostingFrom(_, _, _, _)
JobPostingFrom(outcomes, maxR, attempt, waits) ==
    IF attempt > maxR THEN JobPostingExhausted(NoError, attempt - 1, waits)
    ELSE LET o == outcomes[attempt] IN
         IF o.kind = "text"
         THEN [ raised |-> FALSE, value |-> Trim(o.content), error |-> NoError,
                attempts |-> attempt, waits |-> waits ]
         ELSE LET error == IF o.kind = "null" THEN TypeError ELSE o.error IN
              IF ClassifierIsConnectionError(error) /\ attempt < maxR
              THEN JobPostingFrom(outcomes, maxR, attempt + 1,
                                  Append(waits, [ after |-> attempt,
                                                  ms |-> Backoff(attempt) ]))
              ELSE IF attempt = maxR
              THEN JobPostingExhausted(error, attempt, waits)
              ELSE JobPostingFrom(outcomes, maxR, attempt + 1, waits)

\* classifier.js lines 29-89
ClassifyJobPosting(c) == JobPostingFrom(c.outcomes, c.maxRetries, 1, <<>>)

-----------------------------------------------------------------------------
(* Direct calls of the functions a run is made of: one call, its argument  *)
(* drawn from a bounded set, and the value it returns.                      *)

CallOf(fn, arg) == [ fn |-> fn, arg |-> arg, done |-> FALSE ]

Return(result) ==
    /\ ~call.done
    /\ call' = [ fn |-> call.fn, arg |-> call.arg, done |-> TRUE, result |-> result ]
    /\ UNCHANGED <<disk, input, envKey, run>>

\* lines 267-288: the validation applied to a parsed reply
CallCoerce ==
    /\ call.fn = "coerce"
    /\ Return(Coerce(call.arg))

\* lines 354-369: the normalization of a non-empty link
CallRefineLink ==
    /\ call.fn = "refine"
    /\ Return(RefineLink(call.arg))

\* lines 164-219: one call of fetchPageContent
CallFetchPageContent ==
    /\ call.fn = "fetch"
    /\ Return(FetchPageContent(call.arg))

\* classifier.js lines 29-89: one call of Classifier.classifyJobPosting
CallClassifyJobPosting ==
    /\ call.fn = "classifyJobPosting"
    /\ Return(ClassifyJobPosting(call.arg))

CallsInit ==
    /\ disk = [ exists |-> FALSE, rows |-> <<>> ]
    /\ input = disk
    /\ envKey = EMPTY
    /\ run = [ r \in {1} |-> IdleRun ]
    /\ \/ \E parsed \in ParsedReplies : call = CallOf("coerce", parsed)
       \/ \E link \in Links : call = CallOf("refine", link)
       \/ \E outcome \in DirectFetchOutcomes : call = CallOf("fetch", outcome)
       \/ \E c \in JobPostingCalls : call = CallOf("classifyJobPosting", c)

CallsNext ==
    \/ CallCoerce
    \/ CallRefineLink
    \/ CallFetchPageContent
    \/ CallClassifyJobPosting

CallsSpec == CallsInit /\ [][CallsNext]_vars

-----------------------------------------------------------------------------
(* Properties *)

Runs == DOMAIN run

\* the number of data rows of the table the run works on
N(r) == Len(run[r].rows)

\* a row the merge has augmented: every merged column is there, with the fixed
\* status marker
Augmented(row) ==
    /\ MergedKeys \subseteq DOMAIN row
    /\ row["Status"] = Str("Not Applied")

\* row j (from 1) of the file holds the values the input file had in every
\* column of the input, and nothing in the columns the run added
Untouched(j) ==
    /\ j <= Len(input.rows)
    /\ \A h \in DOMAIN disk.rows[j] :
         disk.rows[j][h] = IF h \in DOMAIN input.rows[j] THEN input.rows[j][h] ELSE EMPTY

\* C1: right after the save for row i succeeded, the file holds the merged rows
\* for rows 0..i and, for every later row, its pre-run values in every original
\* column and nothing in the added columns.
C1_SnapshotAfterSave ==
    \A r \in Runs :
        run[r].pc = "pace" =>
            /\ Len(disk.rows) = N(r)
            /\ \A j \in 1..(run[r].i + 1) :
                 /\ disk.rows[j] = run[r].results[j]
                 /\ Augmented(disk.rows[j])
                 /\ DOMAIN input.rows[j] \subseteq DOMAIN disk.rows[j]
                 /\ \A h \in DOMAIN input.rows[j] \ MergedKeys :
                      disk.rows[j][h] = input.rows[j][h]
            /\ \A j \in (run[r].i + 2)..N(r) :
                 /\ DOMAIN disk.rows[j] = DOMAIN disk.rows[1]
                 /\ Untouched(j)

\* a save succeeded for a row that is not the last, of a table that already
\* had a Status column
C1_Witness ==
    \E r \in Runs :
        /\ run[r].pc = "pace"
        /\ run[r].i = 0
        /\ N(r) >= 2
        /\ "Status" \in DOMAIN input.rows[2]
        /\ disk.rows[2]["Status"] = Str("Applied")
        /\ disk.rows[2]["Remote"] = EMPTY
        /\ disk.rows[1]["Remote"] # EMPTY

\* C2: a row whose augmented result is on disk keeps exactly that result in
\* every later state of the file, whatever the later saves do and when the run
\* aborts.
C2_PersistedRowsKept ==
    [][ \A r \in Runs : \A j \in 1..run[r].saved :
          /\ disk.rows[j] = run[r].results[j]
          /\ Len(disk'.rows) >= j
          /\ disk'.rows[j] = disk.rows[j]
          /\ run'[r].results[j] = run[r].results[j] ]_vars

\* the run aborted at a later row and the first row's result is still there
C2_Witness ==
    \E r \in Runs :
        /\ run[r].pc = "failed"
        /\ run[r].saved >= 1
        /\ run[r].i >= 1
        /\ disk.rows[1] = run[r].results[1]
        /\ Augmented(disk.rows[1])

\* C3: every snapshot written, and the table of a completed run, has as many
\* rows as the input table, in the same order (row j still carries the
\* pass-through values of input row j).
C3_RowCountKept ==
    \A r \in Runs :
        /\ run[r].pc = "write" => Len(run[r].fullRows) = Len(input.rows)
        /\ (run[r].saved >= 1 \/ run[r].pc = "done") =>
              /\ Len(disk.rows) = Len(input.rows)
              /\ \A j \in 1..Len(input.rows) :
                   \A h \in DOMAIN input.rows[j] \ MergedKeys :
                      disk.rows[j][h] = input.rows[j][h]

\* a run over two different rows completed
C3_Witness ==
    \E r \in Runs :
        /\ run[r].pc = "done"
        /\ Len(input.rows) >= 2
        /\ run[r].saved = Len(input.rows)
        /\ input.rows[1] # input.rows[2]
        /\ Len(disk.rows) = Len(input.rows)

\* the errors a save can end with
WriteErrors == { BusyError } \cup { WriteError(c) : c \in WriteOutcomes \ {"ok"} }

\* C4: once the loop has started the run fails only in a save; no outcome of
\* the normalization, the fetch or the classification of a row leads anywhere
\* but to the merge of that row and a save attempt for it, and the loop moves
\* to the next row only after a save.
C4_OnlySaveAborts ==
    [][ \A r \in Runs : run'[r] # run[r] =>
          /\ (run[r].pc # "idle" /\ run'[r].pc = "failed") =>
                /\ run[r].pc = "write"
                /\ run'[r].error \in WriteErrors
                /\ Len(run[r].results) = run[r].i + 1
          /\ run[r].pc \in {"fetch", "classify", "attempt"} =>
                /\ run'[r].pc \in {"classify", "attempt", "merge"}
                /\ run'[r].i = run[r].i
          /\ run[r].pc = "merge" =>
                /\ run'[r].pc = "write"
                /\ run'[r].writeAttempt = 1
                /\ Len(run'[r].results) = run[r].i + 1
          /\ run'[r].i # run[r].i => run[r].pc = "pace" ]_vars

\* a save is attempted for a row whose link is no URL (kept as it is), after
\* the fetch and calls of the classification service that gave nothing
C4_Witness ==
    \E r \in Runs :
        /\ run[r].pc = "write"
        /\ run[r].writeAttempt = 1
        /\ run[r].link = LinkNotAUrl
        /\ run[r].refinedLink = LinkNotAUrl
        /\ run[r].i \in run[r].fetched
        /\ run[r].i \in run[r].remote
        /\ run[r].classification = DEFAULT_CLASSIFICATION
        /\ run[r].results[run[r].i + 1]["Link"] = LinkNotAUrl

\* a Link value that is empty or only whitespace
BlankLink(row) ==
    linkKey \in DOMAIN row /\ \A k \in 1..Len(row[linkKey]) : IsSpace(row[linkKey][k])

\* the classification columns of a row are those of the default Classification
DefaultColumns(row) ==
    /\ row["Remote"] = NA /\ row["BestStack"] = NA /\ row["Industry"] = NA
    /\ row["AnnualSalary"] = NA /\ row["Level"] = NA
    /\ row["AllPossibleStacks"] = EMPTY
    /\ row["GovernanceAndSecurityPhrases"] = EMPTY
    /\ row["SecretRequired"] = Str("No")

\* C5: for a row whose Link is empty or blank neither fetchPageContent nor
\* classifyWithOpenAI is called, its merged row carries the default
\* Classification, and the row is merged and saved like any other.
C5_BlankLinkSkipsCalls ==
    \A r \in Runs : \A j \in 1..N(r) :
        BlankLink(input.rows[j]) =>
            /\ (j - 1) \notin run[r].fetched
            /\ (j - 1) \notin run[r].classified
            /\ (j - 1) \notin run[r].remote
            /\ j <= Len(run[r].results) =>
                  Augmented(run[r].results[j]) /\ DefaultColumns(run[r].results[j])
            /\ run[r].saved >= j =>
                  Augmented(disk.rows[j]) /\ DefaultColumns(disk.rows[j])
            /\ run[r].i >= j => run[r].saved >= j

\* a row with a whitespace-only Link was saved
C5_Witness ==
    \E r \in Runs : \E j \in 1..N(r) :
        /\ BlankLink(input.rows[j])
        /\ input.rows[j][linkKey] = LinkBlank
        /\ run[r].saved >= j
        /\ disk.rows[j]["Remote"] = NA
        /\ run[r].fetched # {}

\* C6: a save whose first k write attempts meet a locked file (k in 0..4) and
\* whose next attempt succeeds returns with the complete table written, and
\* the wait before attempt j+1 was j times the base delay.
C6_LinearWriteBackoff ==
    \A r \in Runs :
        /\ run[r].pc \in {"write", "pace"} =>
              /\ Len(run[r].writeWaits) = run[r].writeAttempt - 1
              /\ \A j \in 1..Len(run[r].writeWaits) :
                   run[r].writeWaits[j] = j * WRITE_RETRY_DELAY_MS
              /\ \A j \in 1..(Len(run[r].writeWaits) - 1) :
                   run[r].writeWaits[j] < run[r].writeWaits[j + 1]
        /\ run[r].pc = "pace" =>
              /\ run[r].writeAttempt \in 1..WRITE_RETRIES
              /\ run[r].error = NoError
              /\ disk.exists /\ disk.rows = run[r].fullRows
              /\ Len(disk.rows) = N(r)

\* the fifth attempt succeeded after four locked ones
C6_Witness ==
    \E r \in Runs :
        /\ run[r].pc = "pace"
        /\ run[r].writeAttempt = WRITE_RETRIES
        /\ run[r].writeWaits = <<1500, 3000, 4500, 6000>>
        /\ disk.rows = run[r].fullRows

\* the file after the first k saves of run r succeeded
LastSnapshot(r) ==
    IF run[r].saved = 0 THEN input
    ELSE [ exists |-> TRUE,
           rows |-> SubSeq(run[r].results, 1, run[r].saved)
                      \o [ k \in 1..(N(r) - run[r].saved) |->
                             [ h \in DOMAIN run[r].results[1] |->
                                 IF h \in DOMAIN input.rows[run[r].saved + k]
                                 THEN input.rows[run[r].saved + k][h] ELSE EMPTY ] ] ]

\* C7: a save makes at most 5 attempts; when all meet a locked file the run
\* ends with the busy error (code EBUSY, the close-the-file message) and the
\* file is the last snapshot written, the input file if none was.
C7_BusyAfterFiveAttempts ==
    \A r \in Runs :
        /\ run[r].writeAttempt <= WRITE_RETRIES
        /\ (run[r].pc = "failed" /\ run[r].error.code = "EBUSY") =>
              /\ run[r].error = BusyError
              /\ run[r].error.message = BusyMessage
              /\ run[r].writeAttempt = WRITE_RETRIES
              /\ Len(run[r].writeWaits) = WRITE_RETRIES - 1
              /\ run[r].saved = run[r].i
              /\ disk = LastSnapshot(r)

\* the save of the second row met a locked file five times
C7_Witness ==
    \E r \in Runs :
        /\ run[r].pc = "failed"
        /\ run[r].error = BusyError
        /\ run[r].saved = 1
        /\ disk.rows[1] = run[r].results[1]
        /\ Len(run[r].results) = 2

ClassificationFields ==
    { "remote", "bestStack", "allPossibleStacks", "hasSpecialPhrase",
      "matchedSpecialPhrases", "industry", "annualSalary", "level" }

\* C8: classifyWithOpenAI never lets an error escape: whatever the remote call
\* does, the call goes on to another attempt or returns a Classification, and
\* it returns the default Classification when every attempt failed.
C8_ClassifyNeverRaises ==
    [][ \A r \in Runs :
          (run[r].pc \in {"classify", "attempt"} /\ run'[r] # run[r]) =>
             /\ run'[r].pc \in {"attempt", "merge"}
             /\ run'[r].error = NoError
             /\ run'[r].remoteCalls <= maxRetries
             /\ run'[r].pc = "merge" =>
                   /\ DOMAIN run'[r].classification = ClassificationFields
                   /\ run'[r].classification.hasSpecialPhrase \in BOOLEAN
                   /\ run'[r].attempt = maxRetries + 1 =>
                         run'[r].classification = DEFAULT_CLASSIFICATION ]_vars

\* the call returned the default after three failed attempts
C8_Witness ==
    \E r \in Runs :
        /\ run[r].pc = "merge"
        /\ run[r].attempt = maxRetries + 1
        /\ run[r].remoteCalls = maxRetries
        /\ run[r].lastError # NoError
        /\ run[r].classification = DEFAULT_CLASSIFICATION

\* a credential that is empty or does not start with "sk-"
Malformed(key) == key = EMPTY \/ key[1] # "sk-"

\* C9: with an empty credential or one that does not start with "sk-",
\* classifyWithOpenAI returns the default Classification and never calls the
\* classification service.
C9_BadKeyNoRemoteCall ==
    \A r \in Runs :
        (run[r].pc # "idle" /\ Malformed(run[r].apiKey)) =>
            /\ run[r].remote = {}
            /\ run[r].remoteCalls = 0
            /\ run[r].pc # "attempt"
            /\ (run[r].pc = "merge" /\ run[r].i \in run[r].classified) =>
                  run[r].classification = DEFAULT_CLASSIFICATION

\* classifyWithOpenAI returned for a credential with another prefix
C9_Witness ==
    \E r \in Runs :
        /\ run[r].pc = "merge"
        /\ run[r].i \in run[r].classified
        /\ run[r].apiKey = <<"pk-", "test">>
        /\ run[r].pageText # EMPTY
        /\ run[r].classification = DEFAULT_CLASSIFICATION

\* C10, as claimed: with a malformed credential the run never starts: it
\* fetches no page and writes no snapshot.
C10_AsClaimed ==
    \A r \in Runs :
        Malformed(envKey) =>
            /\ run[r].fetched = {}
            /\ run[r].saved = 0
            /\ disk = input

\* C10, amended: a malformed credential never fails the run.  With a file that
\* has a Link column the run starts and can fail only in a save; it fetches
\* the page of every row with a link, calls the classification service for
\* none, and merges and saves every row with the default Classification.
C10_BadKeyRunsWithDefaults ==
    \A r \in Runs :
        (run[r].pc # "idle" /\ Malformed(envKey)) =>
            /\ input.exists => run[r].apiKey = envKey
            /\ (input.exists /\ HasLinkColumn(input.rows) /\ run[r].pc = "failed") =>
                  run[r].error \in WriteErrors
            /\ run[r].remote = {}
            /\ \A j \in 1..Len(run[r].results) :
                 /\ DefaultColumns(run[r].results[j])
                 /\ ~BlankLink(input.rows[j]) => (j - 1) \in run[r].fetched
            /\ run[r].pc = "done" =>
                  /\ run[r].saved = Len(input.rows)
                  /\ \A j \in 1..Len(input.rows) :
                       Augmented(disk.rows[j]) /\ DefaultColumns(disk.rows[j])

\* a run with a malformed credential completed, having fetched and saved
C10_Witness ==
    \E r \in Runs :
        /\ envKey = <<"pk-", "test">>
        /\ run[r].pc = "done"
        /\ run[r].saved >= 1
        /\ run[r].fetched # {}
        /\ disk # input

Returned(fn) == call.fn = fn /\ call.done

\* C12: whatever record the service's reply parses to, the classification
\* returned has remote, industry, annualSalary and level inside their closed
\* vocabularies: a valid value comes back unchanged, "Principle" comes back as
\* "Principal", and any other or missing value comes back as "N/A".
C12_Remote == { Str("Remote"), Str("Hybrid"), Str("On-site"), Str("N/A") }
C12_Industry == { Str("finance"), Str("healthcare"), Str("N/A") }
C12_Salary ==
    { Str("30K <"), Str("60K <"), Str("100K <"), Str("160K <"), Str("200K <"),
      Str("N/A") }
C12_Level ==
    { Str("Middle"), Str("Senior"), Str("Staff"), Str("Principal"), Str("Lead"),
      Str("Architect"), Str("N/A") }

C12_Field(in, out, valid) ==
    /\ out \in valid
    /\ (in.t = "str" /\ in.s \in valid) => out = in.s
    /\ ~(in.t = "str" /\ in.s \in valid) => out = Str("N/A")

C12_EnumsCoerced ==
    Returned("coerce") =>
        /\ C12_Field(call.arg.remote, call.result.remote, C12_Remote)
        /\ C12_Field(call.arg.industry, call.result.industry, C12_Industry)
        /\ C12_Field(call.arg.annualSalary, call.result.annualSalary, C12_Salary)
        /\ IF call.arg.level = JStr(Str("Principle"))
           THEN call.result.level = Str("Principal")
           ELSE C12_Field(call.arg.level, call.result.level, C12_Level)

\* a reply with the misspelt level, an unknown remote value, a missing salary
\* and a valid industry has been validated
C12_Witness ==
    /\ Returned("coerce")
    /\ call.arg.level = JStr(Str("Principle"))
    /\ call.arg.remote = JStr(Str("remote"))
    /\ call.arg.annualSalary = JUndef
    /\ call.arg.industry = JStr(Str("healthcare"))
    /\ call.result.level = Str("Principal")
    /\ call.result.remote = Str("N/A")
    /\ call.result.industry = Str("healthcare")


\* C13: the bestStack of a returned classification is a member of STACK_LIST
\* or "N/A", so the BestStack column of the saved file never holds a value
\* outside that vocabulary (a row not yet processed holds the empty cell).
C13_AsClaimed ==
    \A j \in 1..Len(disk.rows) :
        "BestStack" \in DOMAIN disk.rows[j] =>
            disk.rows[j]["BestStack"] \in STACK_LIST \cup { Str("N/A"), EMPTY }

\* the text of a link before its query and fragment
UpToQuery(link) == SubSeq(link, 1, Min({ k \in 1..Len(link) : link[k] \in {"?", "#"} }
                                       \cup { Len(link) + 1 }) - 1)

OnProxyHost(link) ==
    /\ Len(link) >= 3
    /\ link[1] = "https://" /\ link[2] = "boards." /\ link[3] = "applytojob.com"

C14_Link ==
    <<"https://", "boards.", "applytojob.com", "/", "company", "/", "abc123",
      "/", "apply", "?", "ref=x">>

\* C14 as claimed: the link on the apply-proxy host loses its /apply segment
C14_AsClaimed ==
    (Returned("refine") /\ call.arg = C14_Link) =>
        call.result = <<"https://", "boards.", "applytojob.com", "/", "company",
                        "/", "abc123">>

\* C14: a link on an apply-proxy host is normalized to its origin and whole
\* path, an /apply segment included; only the query and fragment are dropped.
C14_ProxyKeepsPath ==
    (Returned("refine") /\ OnProxyHost(call.arg)) =>
        /\ call.result \in { UpToQuery(call.arg), UpToQuery(call.arg) \o <<"/">> }
        /\ Len(UpToQuery(call.arg)) > 3 => call.result = UpToQuery(call.arg)
        /\ call.arg = C14_Link =>
             call.result = <<"https://", "boards.", "applytojob.com", "/", "company",
                             "/", "abc123", "/", "apply">>

\* the link of the claim has been normalized
C14_Witness ==
    /\ Returned("refine")
    /\ call.arg = C14_Link
    /\ call.result[Len(call.result)] = "apply"

OnPlainHost(link) ==
    Len(link) >= 2 /\ link[1] = "https://" /\ link[2] = "jobs.example.com"

\* the positions in s where a path segment equal to "apply" starts (at its "/")
ApplySegments(s) ==
    { k \in 1..(Len(s) - 1) :
        /\ s[k] = "/" /\ s[k + 1] = "apply"
        /\ (k + 2 > Len(s) \/ s[k + 2] = "/") }

\* C15 as claimed: on a host that is not an apply-proxy, a path with a segment
\* "apply" is cut at the start of the first such segment, and a path without one
\* is kept whole; only query and fragment are dropped.
C15_AsClaimed ==
    (Returned("refine") /\ OnPlainHost(call.arg)) =>
        LET p == UpToQuery(call.arg) IN
        IF ApplySegments(p) # {}
        THEN call.result = SubSeq(p, 1, Min(ApplySegments(p)) - 1)
        ELSE call.result \in { p, p \o <<"/">> }

\* C16 as claimed: normalizing an already normalized link returns it unchanged
C16_AsClaimed ==
    Returned("refine") => RefineLink(call.result) = call.result

\* the sub-frames whose text extraction succeeded with a text that is not blank
GoodFrames(frames) ==
    { k \in 1..Len(frames) : frames[k].ok /\ frames[k].text \notin { EMPTY, Str(" ") } }

\* C17: a call of fetchPageContent never raises: when any step fails it
\* returns the empty text, and when only the text extraction of sub-frames
\* fails it still returns the text of the body and of every other sub-frame.
C17_FetchNeverRaises ==
    Returned("fetch") =>
        LET o == call.arg
            text == call.result.text IN
        /\ ~call.result.raised
        /\ call.result.error = NoError
        /\ o.failAt # "none" => text = EMPTY
        /\ o.failAt = "none" =>
             /\ SubSeq(text, 1, Len(o.body)) = o.body
             /\ Len(text) = Len(o.body) + 2 * Cardinality(GoodFrames(o.frames))
             /\ \A k \in GoodFrames(o.frames) :
                  \E p \in 1..Len(text) : <<text[p]>> = o.frames[k].text

\* a call whose first sub-frame failed and whose second gave text has returned
C17_Witness ==
    /\ Returned("fetch")
    /\ call.arg.failAt = "none"
    /\ Len(call.arg.frames) = 2
    /\ ~call.arg.frames[1].ok
    /\ 2 \in GoodFrames(call.arg.frames)
    /\ call.result.text = call.arg.body \o Str("\n\n") \o call.arg.frames[2].text

\* C18 as claimed: when a call of fetchPageContent returns, on any path, the
\* browser and the page it opened are closed.
C18_AsClaimed ==
    Returned("fetch") =>
        /\ call.result.browser \in {"none", "closed"}
        /\ call.result.page \in {"none", "closed"}

\* C19 as claimed: the file read at any moment, after a kill of the process
\* included, is a complete snapshot (the previous one or the new one), never a
\* file cut short; after a kill every row whose save completed is still there.
C19_AsClaimed ==
    /\ "torn" \notin DOMAIN disk
    /\ \A r \in Runs :
         run[r].pc = "killed" =>
             \/ disk = LastSnapshot(r)
             \/ /\ run[r].fullRows # <<>>
                /\ disk = [ exists |-> TRUE, rows |-> run[r].fullRows ]

\* a list of at most three strings joined with a delimiter
Joined(list, sep) ==
    CASE Len(list) = 0 -> <<>>
      [] Len(list) = 1 -> list[1]
      [] Len(list) = 2 -> list[1] \o <<sep>> \o list[2]
      [] OTHER -> list[1] \o <<sep>> \o list[2] \o <<sep>> \o list[3]

\* the columns of a row that the merge only passes through
PassThrough(row) ==
    DOMAIN row \ { "Date", "Status", "Link", "Remote", "BestStack",
                   "AllPossibleStacks", "SecretRequired",
                   "GovernanceAndSecurityPhrases", "Industry", "AnnualSalary",
                   "Level" }

\* C20: the row merged for a row with a non-empty link and its classification
\* c keeps every pass-through field of the input row, has Status "Not Applied"
\* and the normalized link, the Remote, BestStack, Industry, AnnualSalary and
\* Level of c, the lists of c joined with their delimiters, and SecretRequired
\* "Yes" exactly when c.hasSpecialPhrase.
C20_MergedRow ==
    \A r \in Runs :
        (run[r].pc \in {"write", "pace"} /\ run[r].link # EMPTY) =>
            LET row    == input.rows[run[r].i + 1]
                merged == run[r].results[run[r].i + 1]
                c      == run[r].classification IN
            /\ \A h \in PassThrough(row) : merged[h] = row[h]
            /\ merged["Status"] = Str("Not Applied")
            /\ merged["Link"] = RefineLink(run[r].link)
            /\ run[r].link[1] = "https://" =>
                 merged["Link"] = <<"https://", "jobs.example.com", "/", "posting",
                                    "/", "42">>
            /\ merged["Remote"] = c.remote
            /\ merged["BestStack"] = c.bestStack
            /\ merged["Industry"] = c.industry
            /\ merged["AnnualSalary"] = c.annualSalary
            /\ merged["Level"] = c.level
            /\ merged["AllPossibleStacks"] = Joined(c.allPossibleStacks, ", ")
            /\ merged["GovernanceAndSecurityPhrases"]
                 = Joined(c.matchedSpecialPhrases, "; ")
            /\ merged["SecretRequired"] = Str("Yes") <=> c.hasSpecialPhrase
            /\ merged["SecretRequired"] \in { Str("Yes"), Str("No") }

\* a row with a link that normalization changes and a classification with two
\* stacks and a special phrase has been merged
C20_Witness ==
    \E r \in Runs :
        /\ run[r].pc = "write"
        /\ run[r].link # EMPTY
        /\ run[r].results[run[r].i + 1]["Link"] # run[r].link
        /\ run[r].classification.hasSpecialPhrase
        /\ Len(run[r].classification.allPossibleStacks) = 2
        /\ run[r].results[run[r].i + 1]["SecretRequired"] = Str("Yes")

\* C21: the rows of a run are handled one after the other: while row i is
\* being handled the saves of rows 0..i-1 have succeeded and exactly one pacing
\* delay was taken after each of them; row i is fetched first, then classified,
\* then merged, then saved; no row after i has been touched; and no pacing
\* delay follows the save of the last row.
C21_InRow == { "fetch", "classify", "attempt", "merge", "write" }

C21_RowsInOrder ==
    \A r \in Runs :
        LET i  == run[r].i
            pc == run[r].pc IN
        /\ pc \in C21_InRow =>
             /\ i < N(r)
             /\ run[r].saved = i
             /\ run[r].paces = i
             /\ Len(run[r].results) = (IF pc = "write" THEN i + 1 ELSE i)
             /\ run[r].fetched \subseteq 0..i
        /\ pc = "pace" => run[r].saved = i + 1 /\ run[r].paces = i
        /\ pc = "loop" =>
             /\ run[r].saved = i
             /\ run[r].paces = (IF i = N(r) /\ i > 0 THEN i - 1 ELSE i)
             /\ run[r].fetched \subseteq 0..(i - 1)
        /\ pc = "done" =>
             /\ run[r].saved = N(r)
             /\ run[r].paces = (IF N(r) = 0 THEN 0 ELSE N(r) - 1)
        /\ run[r].remote \subseteq run[r].classified
        /\ run[r].classified \subseteq run[r].fetched
        /\ pc = "fetch" => i \notin run[r].fetched
        /\ pc = "classify" => i \in run[r].fetched /\ i \notin run[r].classified
        /\ pc = "attempt" => i \in run[r].classified
        /\ (pc \in {"merge", "write", "pace"} /\ run[r].link # EMPTY) =>
             i \in run[r].fetched /\ i \in run[r].classified

\* a run over MaxRows rows with links has fetched every row and is done
C21_Witness ==
    \E r \in Runs :
        /\ run[r].pc = "done"
        /\ N(r) = MaxRows
        /\ run[r].fetched = 0..(MaxRows - 1)
        /\ run[r].paces = MaxRows - 1

\* the errors of the model that stand for a refused connection, a timeout or
\* a failed name lookup
ConnectionFailure(err) ==
    err.code = "ECONNREFUSED" \/ err.message = <<"Connection", " error.">>

\* C22: a call of classifyWithOpenAI makes at most 3 attempts; an attempt that
\* fails, whatever its error, is followed by another one while fewer than 3
\* were made; a connection failure on attempt k < 3 is followed by a wait of
\* 2^(k-1) seconds (1 s, then 2 s); nothing is waited after the third attempt.
C22_ThreeAttempts ==
    [][ \A r \in Runs :
          (run[r].pc = "attempt" /\ run'[r].remoteCalls = run[r].remoteCalls + 1) =>
              LET k      == run[r].attempt
                  failed == run'[r].attempt = k + 1 IN
              /\ k \in 1..3
              /\ run'[r].remoteCalls = k
              /\ Len(run'[r].waits) <= 2
              /\ (failed /\ k < 3) => run'[r].pc = "attempt"
              /\ (failed /\ k < 3 /\ ConnectionFailure(run'[r].lastError)) =>
                   run'[r].waits
                     = Append(run[r].waits, IF k = 1 THEN 1000 ELSE 2000)
              /\ (failed /\ k = 3) =>
                   /\ run'[r].waits = run[r].waits
                   /\ run'[r].pc = "merge"
                   /\ run'[r].classification = DEFAULT_CLASSIFICATION
              /\ ~failed => run'[r].pc = "merge" /\ run'[r].waits = run[r].waits
      ]_vars

\* three attempts failed, the first two with a connection failure
C22_Witness ==
    \E r \in Runs :
        /\ run[r].pc = "merge"
        /\ run[r].remoteCalls = 3
        /\ run[r].attempt = 4
        /\ run[r].waits = <<1000, 2000>>
        /\ ConnectionFailure(run[r].lastError)

\* C23 as claimed: after a failed attempt k < 3 whose error is a rate-limit
\* error (status 429) or an auth error (status 401), the wait of 2^(k-1) seconds
\* has been made before attempt k+1.
C23_AsClaimed ==
    \A r \in Runs :
        (run[r].pc = "attempt" /\ run[r].attempt >= 2
           /\ run[r].lastError.status \in {429, 401}) =>
            /\ run[r].waits # <<>>
            /\ run[r].waits[Len(run[r].waits)] = (2 ^ (run[r].attempt - 2)) * 1000

\* C24: a save is tried again only after a write that failed with EBUSY; a
\* write that fails with another error ends the save at once, on whichever
\* attempt: no wait follows it, no further attempt is made, the file is left as
\* it was and the run fails with that very error, not with the busy error.
C24_OnlyBusyRetried ==
    [][ \A r \in Runs :
          (run[r].pc = "write" /\ run'[r] # run[r] /\ run'[r].pc # "pace") =>
              IF run'[r].lastErr.code = "EBUSY"
              THEN \/ /\ run[r].writeAttempt < 5
                      /\ run'[r].pc = "write"
                      /\ run'[r].writeAttempt = run[r].writeAttempt + 1
                   \/ /\ run[r].writeAttempt = 5
                      /\ run'[r].pc = "failed"
              ELSE /\ run'[r].pc = "failed"
                   /\ run'[r].error = run'[r].lastErr
                   /\ run'[r].error.code = "EACCES"
                   /\ run'[r].error.message # BusyMessage
                   /\ run'[r].writeAttempt = run[r].writeAttempt
                   /\ run'[r].writeWaits = run[r].writeWaits
                   /\ Len(run'[r].writeWaits) = run[r].writeAttempt - 1
                   /\ disk' = disk
      ]_vars

\* a save whose first two writes met a locked file and whose third failed with
\* another error has ended
C24_Witness ==
    \E r \in Runs :
        /\ run[r].pc = "failed"
        /\ run[r].writeAttempt = 3
        /\ run[r].writeWaits = <<1500, 3000>>
        /\ run[r].error = WriteError("EACCES")

\* the run is over: it returned the file location, or it failed with an error
Over(r) == run[r].pc \in { "done", "failed" }

\* an upper bound on the number of steps the run can still take: at most 13 for
\* a row (its head, the fetch, the entry of the classification, 3 attempts,
\* the merge, 5 writes, the pacing), and the return
StepsLeft(r) ==
    LET pc   == run[r].pc
        rows == IF pc = "idle" THEN Len(disk.rows) ELSE N(r)
        left == rows - run[r].i IN
    CASE pc = "idle"     -> 13 * rows + 2
      [] pc = "loop"     -> 13 * left + 1
      [] pc = "fetch"    -> 13 * left
      [] pc = "classify" -> 13 * left - 1
      [] pc = "attempt"  -> 13 * left - 1 - run[r].attempt
      [] pc = "merge"    -> 13 * left - 5
      [] pc = "write"    -> 13 * left - 5 - run[r].writeAttempt
      [] pc = "pace"     -> 13 * left - 11
      [] OTHER           -> 0

\* C25, as an eventuality under FairSpec: every run is eventually over, and
\* stays so.
C25_EventuallyOver == <>[](\A r \in Runs : Over(r))

\* C25: every run ends, having returned with all its rows saved or having
\* failed with an error: until then a step can always be taken, every step
\* lowers the bound on the steps left, which is never negative, and no
\* classification or save is repeated beyond its ceiling (3 attempts, 5 writes).
C25_Terminates ==
    /\ [](\A r \in Runs :
            /\ ~Over(r) => ENABLED Next
            /\ run[r].pc = "done" => run[r].saved = N(r) /\ run[r].error = NoError
            /\ run[r].pc = "failed" => run[r].error # NoError
            /\ run[r].attempt <= 4 /\ run[r].remoteCalls <= 3
            /\ run[r].writeAttempt <= 5
            /\ StepsLeft(r) >= 0)
    /\ [][ \A r \in Runs : run'[r] # run[r] => StepsLeft(r)' < StepsLeft(r) ]_vars

\* a run over MaxRows rows that used every attempt of a classification and
\* four retries of a save has returned
C25_Witness ==
    \E r \in Runs :
        /\ run[r].pc = "pace"
        /\ run[r].i = MaxRows - 1
        /\ N(r) = MaxRows
        /\ run[r].writeAttempt = 5
        /\ run[r].classification = DEFAULT_CLASSIFICATION
        /\ run[r].link # EMPTY

\* the attempts of a call of classifyJobPosting that would succeed
Succeeding(c) ==
    { k \in 1..c.maxRetries : c.outcomes[k].kind = "text" }

\* the failure attempt k of the call meets is one the Classifier takes for
\* transient: a refused connection, a connection error, a rate limit (429) or
\* an auth error (401)
TransientAt(c, k) ==
    /\ c.outcomes[k].kind = "error"
    /\ \/ c.outcomes[k].error.code = "ECONNREFUSED"
       \/ c.outcomes[k].error.status \in {401, 429}
       \/ c.outcomes[k].error.message = <<"Connection", " error.">>

\* C26: a call of Classifier.classifyJobPosting makes at most maxRetries
\* attempts; it returns the (trimmed) reply of the first attempt that succeeds;
\* when every attempt fails it raises the error of the last attempt and returns
\* nothing; it waits 2^(k-1) seconds after attempt k exactly when that attempt
\* failed with a transient error and was not the last one allowed.
C26_JobPosting ==
    Returned("classifyJobPosting") =>
        LET c    == call.arg
            res  == call.result
            made == IF Succeeding(c) = {} THEN c.maxRetries ELSE Min(Succeeding(c)) IN
        /\ res.attempts <= c.maxRetries
        /\ res.attempts = made
        /\ Succeeding(c) # {} =>
             /\ ~res.raised
             /\ res.value = Trim(c.outcomes[made].content)
             /\ res.value \in { Str("TECHNICAL"), Str("NON-TECHNICAL") }
        /\ Succeeding(c) = {} =>
             /\ res.raised
             /\ res.value = EMPTY
             /\ (made >= 1 /\ c.outcomes[made].kind = "error") =>
                  res.error = c.outcomes[made].error
             /\ (made >= 1 /\ c.outcomes[made].kind = "null") =>
                  res.error = TypeError
        /\ { res.waits[j] : j \in 1..Len(res.waits) }
             = { [ after |-> k, ms |-> (IF k = 1 THEN 1000 ELSE 2000) ] :
                   k \in { k \in 1..made : k < c.maxRetries /\ k < 3
                                             /\ ~(k \in Succeeding(c))
                                             /\ TransientAt(c, k) } }
        /\ \A j \in 1..(Len(res.waits) - 1) :
             res.waits[j].after < res.waits[j + 1].after

\* a call whose three attempts failed, the first with a rate limit and the
\* second with a null content, has raised the error of the third
C26_Witness ==
    /\ Returned("classifyJobPosting")
    /\ call.arg.maxRetries = 3
    /\ call.arg.outcomes[1].kind = "error"
    /\ call.arg.outcomes[1].error.status = 429
    /\ call.arg.outcomes[2].kind = "null"
    /\ call.arg.outcomes[3].kind = "error"
    /\ call.arg.outcomes[3].error.status = 400
    /\ call.result.raised
    /\ call.result.error.status = 400
    /\ call.result.waits = << [ after |-> 1, ms |-> 1000 ] >>

\* C27 as claimed: with two runs interleaved on the same file, a row that a
\* save of either run has written augmented stays augmented in the file.
C27_AsClaimed ==
    \A r \in Runs :
        \A j \in 1..run[r].saved :
            /\ j <= Len(disk.rows)
            /\ Augmented(disk.rows[j])

====
